---- MODULE Spec2Model ----
(***************************************************************************)
(* Media scraper: platform identification (scrapers.py), the scrape        *)
(* dispatcher with its engine and TikTok fallback paths (scrapers.py), and *)
(* the three front ends that filter and emit the result (app.py, cli.py).  *)
(*                                                                         *)
(* Python text is a sequence of one-character strings, so that lower(),    *)
(* startswith() and the `in` substring test are computed, not assumed.     *)
(* A Python scalar is a tagged record: None, Str(s) or Num(n); a dict is a *)
(* TLA+ record whose DOMAIN is its key set.                                *)
(***************************************************************************)
EXTENDS Integers, Sequences, FiniteSets, TLC

VARIABLES
    pc,              \* position of the request in flight
    frontend,        \* "GET" | "POST" | "CLI" | "lib" (a direct identify_platform call)
    api_key,         \* the key the HTTP request carries
    url,             \* the URL the request carries
    format_filter,   \* request.args.get('format_filter') / args.format
    quality_filter,  \* request.args.get('quality_filter') / args.quality
    strict,          \* whether the interpreter's urlsplit validates bracketed hosts
    ident,           \* outcome of identify_platform(url)
    platform,        \* scrape_media's local variable `platform`
    core,            \* what scraper.scrape_media returned to the front end
    response,        \* what the front end emitted
    engine_calls,    \* ydl.extract_info calls made for this request
    fetch_calls,     \* session.get calls made for this request
    engine_out,      \* what the last ydl.extract_info call did
    fetch_out,       \* what the last session.get call did
    calls,           \* per handler thread of the HTTP server: the locals of its call
    session,         \* cookie jar of the process-wide scraper's requests.Session
    output           \* CLI: where the JSON goes: "stdout", "file" or "unwritable"

vars == <<pc, frontend, api_key, url, format_filter, quality_filter, strict,
          ident, platform, core, response, engine_calls, fetch_calls,
          engine_out, fetch_out, calls, session, output>>

-----------------------------------------------------------------------------
(* Bounds of the model *)

\* longest host, in tokens, of the URLs given to identify_platform
MaxHostTokens == 2
\* handler threads of the HTTP server that share the module-level scraper
NumThreads == 2
\* longest format list the extraction engine returns
MaxFormats == 2

-----------------------------------------------------------------------------
(* Python values *)

None == [none |-> TRUE]
Str(s) == [s |-> s]
Num(n) == [n |-> n]
IsStr(v) == DOMAIN v = {"s"}

\* Python truthiness of a scalar: None, "" and 0 are falsy
Truthy(v) ==
    IF v = None THEN FALSE
    ELSE IF IsStr(v) THEN Len(v.s) > 0
    ELSE v.n # 0

\* dict.get(key): the value, or None when the key is missing
Get(d, key) == IF key \in DOMAIN d THEN d[key] ELSE None

\* dict.get(key, default)
GetOr(d, key, default) == IF key \in DOMAIN d THEN d[key] ELSE default

-----------------------------------------------------------------------------
(* Text *)

UpperLetters == <<"A","B","C","D","E","F","G","H","I","J","K","L","M",
                  "N","O","P","Q","R","S","T","U","V","W","X","Y","Z">>
LowerLetters == <<"a","b","c","d","e","f","g","h","i","j","k","l","m",
                  "n","o","p","q","r","s","t","u","v","w","x","y","z">>
Digits == {"0","1","2","3","4","5","6","7","8","9"}

Range(f) == {f[i] : i \in DOMAIN f}

LowerChar(c) ==
    IF c \in Range(UpperLetters)
    THEN LowerLetters[CHOOSE i \in DOMAIN UpperLetters : UpperLetters[i] = c]
    ELSE c

\* str.lower()
Lower(s) == [i \in 1..Len(s) |-> LowerChar(s[i])]

\* needle in hay
Contains(hay, needle) ==
    \E i \in 0..(Len(hay) - Len(needle)) :
        \A k \in 1..Len(needle) : hay[i + k] = needle[k]

\* s.startswith(p)
StartsWith(s, p) ==
    /\ Len(s) >= Len(p)
    /\ \A k \in 1..Len(p) : s[k] = p[k]

RECURSIVE Concat(_)
\* the concatenation of a sequence of texts
Concat(parts) ==
    IF parts = <<>> THEN <<>> ELSE Head(parts) \o Concat(Tail(parts))

\* first index of a character of `chars` in s at or after `from`, 0 if none
Find(s, chars, from) ==
    IF \E i \in from..Len(s) : s[i] \in chars
    THEN CHOOSE i \in from..Len(s) :
            /\ s[i] \in chars
            /\ \A j \in from..(i - 1) : s[j] \notin chars
    ELSE 0

-----------------------------------------------------------------------------
(* Domain texts *)

T_youtube   == <<"y","o","u","t","u","b","e",".","c","o","m">>
T_youtu_be  == <<"y","o","u","t","u",".","b","e">>
T_tiktok    == <<"t","i","k","t","o","k",".","c","o","m">>
T_instagram == <<"i","n","s","t","a","g","r","a","m",".","c","o","m">>
T_twitter   == <<"t","w","i","t","t","e","r",".","c","o","m">>
T_x_com     == <<"x",".","c","o","m">>
T_TikTok    == <<"T","i","k","T","o","k",".","C","O","M">>
T_www       == <<"w","w","w",".">>
T_example   == <<"e","x","a","m","p","l","e",".","o","r","g">>
T_https     == <<"h","t","t","p","s",":","/","/">>
T_http      == <<"h","t","t","p",":","/","/">>
T_HTTPS     == <<"H","T","T","P","S",":","/","/">>
T_watch     == <<"/","w","a","t","c","h">>

-----------------------------------------------------------------------------
(* urllib.parse.urlparse(url).netloc, as identify_platform uses it *)

Letters == Range(UpperLetters) \cup Range(LowerLetters)
SchemeChars == Letters \cup Digits \cup {"+", "-", "."}
HexChars == Digits \cup {"a","b","c","d","e","f","A","B","C","D","E","F"}

\* the text left once a leading "scheme:" is split off
AfterScheme(u) ==
    LET i == Find(u, {":"}, 1)
    IN  IF /\ i > 1
           /\ u[1] \in Letters
           /\ \A k \in 1..(i - 1) : u[k] \in SchemeChars
        THEN SubSeq(u, i + 1, Len(u))
        ELSE u

\* the network location: what follows "//" up to the first of "/", "?", "#"
Netloc(u) ==
    LET rest == AfterScheme(u)
    IN  IF StartsWith(rest, <<"/", "/">>)
        THEN LET d == Find(rest, {"/", "?", "#"}, 3)
             IN  SubSeq(rest, 3, IF d = 0 THEN Len(rest) ELSE d - 1)
        ELSE <<>>

HasChar(s, c) == \E i \in 1..Len(s) : s[i] = c

\* "[" without "]" or "]" without "[": urlsplit raises ValueError on every version
UnbalancedBrackets(n) == HasChar(n, "[") # HasChar(n, "]")

\* netloc.partition('[')[2].partition(']')[0]
BracketedHost(n) ==
    LET a == Find(n, {"["}, 1)
        after == SubSeq(n, a + 1, Len(n))
        b == Find(after, {"]"}, 1)
    IN  IF b = 0 THEN after ELSE SubSeq(after, 1, b - 1)

\* an IPv6 literal, as far as the bracketed-host check tells it from a name
LooksLikeIPv6(h) ==
    /\ Len(h) >= 2
    /\ \A i \in 1..Len(h) : h[i] \in HexChars \cup {":"}
    /\ Cardinality({i \in 1..Len(h) : h[i] = ":"}) >= 2

\* whether urlparse(url) raises; st: the interpreter validates bracketed hosts
UrlparseRaises(u, st) ==
    LET n == Netloc(u)
    IN  \/ UnbalancedBrackets(n)
        \/ /\ st
           /\ HasChar(n, "[")
           /\ HasChar(n, "]")
           /\ ~LooksLikeIPv6(BracketedHost(n))

UrlparseError(u) ==
    IF UnbalancedBrackets(Netloc(u))
    THEN "Invalid IPv6 URL"
    ELSE "does not appear to be an IPv4 or IPv6 address"

-----------------------------------------------------------------------------
(* MediaScraper.identify_platform *)

Returned(tag) == [raised |-> FALSE, tag |-> tag, error |-> ""]
Raised(msg) == [raised |-> TRUE, tag |-> "", error |-> msg]

\* the ordered table of identify_platform, applied to the lower-cased netloc
PlatformOf(domain) ==
    IF Contains(domain, T_youtube) \/ Contains(domain, T_youtu_be) THEN "youtube"
    ELSE IF Contains(domain, T_tiktok) THEN "tiktok"
    ELSE IF Contains(domain, T_instagram) THEN "instagram"
    ELSE IF Contains(domain, T_twitter) \/ Contains(domain, T_x_com) THEN "twitter"
    ELSE "unknown"

\* fault injection: the netloc is tested as written, without lower()
DomainOfCaseSensitive(u) == Netloc(u)

\* the domain identify_platform tests: urlparse(url).netloc.lower()
DomainOf(u) == Lower(Netloc(u))

IdentifyPlatform(u, st) ==
    IF UrlparseRaises(u, st)
    THEN Raised(UrlparseError(u))
    ELSE Returned(PlatformOf(DomainOf(u)))

-----------------------------------------------------------------------------
(* The extraction engine's output and its normalization (scrapers.py) *)

\* An error text is kept as the chunks it is concatenated from, f"{prefix}{str(e)}";
\* it is the empty text when every chunk is empty.
ErrorText(prefix, msg) == <<prefix, msg>>
IsEmptyText(t) == \A i \in 1..Len(t) : t[i] = ""

\* the failure dict every except-branch of the scraper builds
Failure(p, prefix, msg) ==
    [success |-> FALSE, error |-> ErrorText(prefix, msg), platform |-> p]

\* fault injection: every platform method builds scrape_youtube's format record
FormatKeysAll(p) ==
    {"format_id", "ext", "quality", "filesize", "url", "vcodec", "acodec",
     "width", "height", "fps", "tbr"}

\* the keys each platform method copies into a format record
FormatKeys(p) ==
    IF p = "youtube"
    THEN {"format_id", "ext", "quality", "filesize", "url", "vcodec", "acodec",
          "width", "height", "fps", "tbr"}
    ELSE IF p = "tiktok"
    THEN {"format_id", "ext", "quality", "filesize", "url", "width", "height", "tbr"}
    ELSE {"format_id", "ext", "quality", "filesize", "url", "width", "height"}

\* fault injection: every platform method copies the youtube field set
MetaKeysAll(p) ==
    {"title", "description", "duration", "thumbnail", "uploader",
     "upload_date", "view_count", "like_count"}

\* the top-level metadata keys each platform method copies
MetaKeys(p) ==
    IF p \in {"youtube", "tiktok"}
    THEN {"title", "description", "duration", "thumbnail", "uploader",
          "upload_date", "view_count", "like_count"}
    ELSE {"title", "description", "thumbnail", "uploader"}

\* fault injection: width is read from the entry's height
FormatInfoSwapped(p, fmt) ==
    [k \in FormatKeys(p) |->
        IF k = "quality"
        THEN GetOr(fmt, "format_note", Str(<<"U","n","k","n","o","w","n">>))
        ELSE IF k = "width" THEN Get(fmt, "height")
        ELSE Get(fmt, k)]

\* format_info: one engine entry projected into a format record
FormatInfo(p, fmt) ==
    [k \in FormatKeys(p) |->
        IF k = "quality"
        THEN GetOr(fmt, "format_note", Str(<<"U","n","k","n","o","w","n">>))
        ELSE Get(fmt, k)]

\* fault injection: the key is looked for, not its value
HasUrlKey(fmt) == "url" \in DOMAIN fmt

\* `if fmt.get('url')`: the entry has a direct URL
HasUrl(fmt) == Truthy(Get(fmt, "url"))

\* fault injection: the records are prepended, not appended
NormalizeFormatsReversed(p, raw) ==
    LET Keep(fmt) == HasUrl(fmt)
        kept == SelectSeq(raw, Keep)
    IN  [i \in 1..Len(kept) |-> FormatInfo(p, kept[Len(kept) + 1 - i])]

\* the loop over info.get('formats', []): entries with a URL, in the engine's order
NormalizeFormats(p, raw) ==
    LET Keep(fmt) == HasUrl(fmt)
        kept == SelectSeq(raw, Keep)
    IN  [i \in 1..Len(kept) |-> FormatInfo(p, kept[i])]

\* fault injection: the generic path writes the identified tag into its results
TagIdentified(p) == p

\* the platform tag a platform method writes into its results
TagOf(p) == IF p = "unknown" THEN "generic" ELSE p

\* fault injection: scrape_instagram's except branch carries scrape_twitter's text
PrefixCopied(p) ==
    CASE p = "youtube"   -> "YouTube scraping failed: "
      [] p = "tiktok"    -> "TikTok scraping failed: "
      [] p = "instagram" -> "Twitter scraping failed: "
      [] p = "twitter"   -> "Twitter scraping failed: "
      [] OTHER           -> "Generic scraping failed: "

\* fault injection: the error text is str(e) alone
NoPrefix(p) == ""

\* the prefix of a platform method's error text
PrefixOf(p) ==
    CASE p = "youtube"   -> "YouTube scraping failed: "
      [] p = "tiktok"    -> "TikTok scraping failed: "
      [] p = "instagram" -> "Instagram scraping failed: "
      [] p = "twitter"   -> "Twitter scraping failed: "
      [] OTHER           -> "Generic scraping failed: "

\* the success dict a platform method builds from the engine's info
Success(p, info) ==
    ("success" :> TRUE) @@ ("platform" :> TagOf(p))
    @@ [k \in MetaKeys(p) |-> Get(info, k)]
    @@ ("formats" :> NormalizeFormats(p, GetOr(info, "formats", <<>>)))

\* An engine call either raises (kind "raise", with str(e)) or returns info, which
\* is a dict or None. Whether the body of a platform method's try block faults:
EngineFaults(out) == out.kind = "raise" \/ out.info = None

EngineFaultText(out) ==
    IF out.kind = "raise" THEN out.msg
    ELSE "'NoneType' object has no attribute 'get'"

\* scrape_youtube / scrape_instagram / scrape_twitter / scrape_with_ytdlp, and the
\* try block of scrape_tiktok
ScrapeWithEngine(p, out) ==
    IF EngineFaults(out)
    THEN Failure(TagOf(p), PrefixOf(p), EngineFaultText(out))
    ELSE Success(p, out.info)

-----------------------------------------------------------------------------
(* MediaScraper.scrape_tiktok_manual *)

\* A fetch either raises (network error, or raise_for_status on a non-2xx status)
\* or yields a page. A page: script in {"absent", "json", "json_video", "notjson",
\* "empty"} (the rehydration script element and what its string holds: JSON, JSON
\* that holds a video's data, other text, nothing), title (None or the text
\* of <title>), og_video and og_image (None, or the tag's attribute dict).

\* fault injection: the extraction is implemented for a payload that holds a video
ExtractTiktokDataVideo(data) ==
    IF data.script = "json_video"
    THEN [success |-> TRUE, platform |-> "tiktok", title |-> Str(<<"J">>),
          thumbnail |-> None, formats |-> <<>>]
    ELSE None

\* extract_tiktok_data: returns None for every payload
ExtractTiktokData(data) == None

\* json.loads(script_tags[0].string) faults with a TypeError, which the inner
\* `except json.JSONDecodeError` does not catch, when the element has no string
ScriptFaults(page) == page.script = "empty"

\* og_image['content'] on a tag without the attribute: KeyError
ThumbnailFaults(page) ==
    page.og_image # None /\ "content" \notin DOMAIN page.og_image

\* fault injection: a record is appended for every og:video tag
ManualFormatsAnyTag(page) ==
    IF page.og_video # None
    THEN << [format_id |-> Str(<<"m","p","4">>),
             ext |-> Str(<<"m","p","4">>),
             quality |-> Str(<<"d","e","f","a","u","l","t">>),
             url |-> Get(page.og_video, "content")] >>
    ELSE <<>>

\* `if og_video and og_video.get('content')`: the one record of the fallback
ManualFormats(page) ==
    IF page.og_video # None /\ Truthy(Get(page.og_video, "content"))
    THEN << [format_id |-> Str(<<"m","p","4">>),
             ext |-> Str(<<"m","p","4">>),
             quality |-> Str(<<"d","e","f","a","u","l","t">>),
             url |-> page.og_video.content] >>
    ELSE <<>>

ScrapeTiktokManual(out) ==
    IF out.kind = "raise"
    THEN Failure("tiktok", "TikTok scraping failed: ", out.msg)
    ELSE IF ScriptFaults(out.page)
    THEN Failure("tiktok", "TikTok scraping failed: ",
                 "the JSON object must be str, bytes or bytearray, not NoneType")
    ELSE IF out.page.script \in {"json", "json_video"}
            /\ ExtractTiktokData(out.page) # None
    THEN ExtractTiktokData(out.page)
    ELSE IF ThumbnailFaults(out.page)
    THEN Failure("tiktok", "TikTok scraping failed: ", "'content'")
    ELSE [success |-> TRUE,
          platform |-> "tiktok",
          title |-> IF out.page.title # None THEN out.page.title
                    ELSE Str(<<"T","i","k","T","o","k"," ","V","i","d","e","o">>),
          thumbnail |-> IF out.page.og_image # None
                        THEN out.page.og_image.content ELSE None,
          formats |-> ManualFormats(out.page)]

-----------------------------------------------------------------------------
(* The filter step of the front ends (app.py 131-148, 210-227; cli.py 72-89) *)

Done(v) == [raised |-> FALSE, value |-> v, error |-> ""]
Fault(msg) == [raised |-> TRUE, value |-> None, error |-> msg]

NoLower == "'NoneType' object has no attribute 'lower'"

\* fmt.get('ext', '').lower() == format_filter.lower()
ExtMatches(fmt, ff) ==
    Lower(GetOr(fmt, "ext", Str(<<>>)).s) = Lower(ff.s)

\* quality_filter.lower() in fmt.get('quality', '').lower()
QualityMatches(fmt, qf) ==
    Contains(Lower(GetOr(fmt, "quality", Str(<<>>)).s), Lower(qf.s))

\* the list comprehension on ext; .lower() on a None ext is an AttributeError
FilterByFormat(fs, ff) ==
    LET Keep(fmt) == ExtMatches(fmt, ff)
    IN  IF \E i \in 1..Len(fs) : GetOr(fs[i], "ext", Str(<<>>)) = None
        THEN Fault(NoLower)
        ELSE Done(SelectSeq(fs, Keep))

\* the list comprehension on quality; .lower() on a None quality is an AttributeError
FilterByQuality(fs, qf) ==
    LET Keep(fmt) == QualityMatches(fmt, qf)
    IN  IF \E i \in 1..Len(fs) : GetOr(fs[i], "quality", Str(<<>>)) = None
        THEN Fault(NoLower)
        ELSE Done(SelectSeq(fs, Keep))

\* fault injection: an empty format list counts as a list to filter
FilterAppliesToEmpty(result) ==
    /\ GetOr(result, "success", FALSE)
    /\ "formats" \in DOMAIN result

\* `if result.get('success') and result.get('formats')`
FilterApplies(result) ==
    /\ GetOr(result, "success", FALSE)
    /\ "formats" \in DOMAIN result
    /\ Len(result.formats) > 0

\* filtered_formats after both optional comprehensions, format first
FilteredFormats(fs, ff, qf) ==
    LET byFormat == IF Truthy(ff) THEN FilterByFormat(fs, ff) ELSE Done(fs)
    IN  IF byFormat.raised THEN byFormat
        ELSE IF Truthy(qf) THEN FilterByQuality(byFormat.value, qf)
        ELSE byFormat

\* fault injection: the count is taken before filtering
TotalBeforeFiltering(result, filtered) == Len(result.formats)

\* result['total_formats'] = len(filtered_formats)
TotalFormats(result, filtered) == Len(filtered)

\* the whole filter step: the result as the front end holds it afterwards
ApplyFilters(result, ff, qf) ==
    IF ~FilterApplies(result) THEN Done(result)
    ELSE LET f == FilteredFormats(result.formats, ff, qf)
         IN  IF f.raised THEN f
             ELSE Done(("formats" :> f.value)
                       @@ ("total_formats" :> TotalFormats(result, f.value))
                       @@ result)

-----------------------------------------------------------------------------
(* The front ends *)

NoBody == [nobody |-> TRUE]
Reply(status, body) == [status |-> status, body |-> body]

\* fault injection: the two filters change places in filters_applied
AddMetadataSwapped(result, u, ff, qf) ==
    ("scraped_url" :> u)
    @@ ("filters_applied" :> [format |-> qf, quality |-> ff])
    @@ result

\* result['scraped_url'], result['filters_applied'] (app.py 150-155, 229-234)
AddMetadata(result, u, ff, qf) ==
    ("scraped_url" :> u)
    @@ ("filters_applied" :> [format |-> ff, quality |-> qf])
    @@ result

\* app.py scrape_media / scrape_media_post from the scraper's return to the reply
HttpFinish(result, u, ff, qf) ==
    LET f == ApplyFilters(result, ff, qf)
    IN  IF f.raised
        THEN Reply(500, [success |-> FALSE,
                         error |-> ErrorText("Internal server error: ", f.error)])
        ELSE Reply(200, AddMetadata(f.value, u, ff, qf))

\* fault injection: the CLI emits the result as the scraper returned it
CliFinishUnfiltered(result, ff, qf) ==
    Reply(IF GetOr(result, "success", FALSE) THEN 0 ELSE 1, result)

\* cli.py main from the scraper's return to sys.exit; status is the exit code and
\* body the JSON written, if any
CliFinish(result, ff, qf) ==
    LET f == ApplyFilters(result, ff, qf)
    IN  IF f.raised THEN Reply(1, NoBody)
        ELSE Reply(IF GetOr(f.value, "success", FALSE) THEN 0 ELSE 1, f.value)

Finish(fe, result, u, ff, qf) ==
    IF fe = "CLI" THEN CliFinish(result, ff, qf) ELSE HttpFinish(result, u, ff, qf)

\* args.output: absent ("stdout"), a path that can be written ("file"), a path on
\* which open() raises ("unwritable"); "none" for the HTTP front ends
Outputs == {"stdout", "file", "unwritable"}

\* fault injection: a failed write is not noticed
EmitUnchecked(o, reply) == reply

\* cli.py from json.dumps to sys.exit: the JSON is printed or written to the file,
\* then the exit code is taken from result['success']; open() raising leads to the
\* except branch, which writes no JSON and exits 1. A reply without body is one of
\* a run that was in the except branch already.
Emit(o, reply) ==
    IF o = "unwritable" /\ reply.body # NoBody THEN Reply(1, NoBody) ELSE reply

\* the configured API_SECRET_KEY and a key that differs from it
SecretKey == Str(<<"k">>)
WrongKey == Str(<<"w">>)

HttpError(status, text) ==
    Reply(status, [success |-> FALSE, error |-> ErrorText(text, "")])

\* A request carries its key in the X-API-Key header, in the api_key query
\* parameter, in both or in neither: key is [header, arg], None for a carrier
\* that is not there.
NoKeys == [header |-> None, arg |-> None]

\* request.headers.get('X-API-Key') or request.args.get('api_key')
ProvidedKey(key) == IF Truthy(key.header) THEN key.header ELSE key.arg

\* fault injection: any key that is present passes the decorator
KeyRejectMissingOnly(key) ==
    IF ~Truthy(ProvidedKey(key))
    THEN HttpError(401, "API key is required. Provide it in X-API-Key header or api_key parameter.")
    ELSE None

\* require_api_key: the reply that rejects the request, or None when the
\* decorated handler is entered
KeyReject(key) ==
    IF ~Truthy(ProvidedKey(key))
    THEN HttpError(401, "API key is required. Provide it in X-API-Key header or api_key parameter.")
    ELSE IF ProvidedKey(key) # SecretKey
    THEN HttpError(403, "Invalid API key.")
    ELSE None

\* require_api_key and the URL validation of the scrape handlers: the reply that
\* rejects the request, or None when the request goes on to the scraper
HttpReject(key, u) ==
    IF KeyReject(key) # None
    THEN KeyReject(key)
    ELSE IF ~Truthy(u)
    THEN HttpError(400, "URL parameter is required")
    ELSE IF ~(StartsWith(u.s, T_http) \/ StartsWith(u.s, T_https))
    THEN HttpError(400, "Invalid URL format. URL must start with http:// or https://")
    ELSE None

\* the endpoints that call no scraper: "index" (/), "health" (/health) and
\* "platforms" (/platforms); only the last is decorated with require_api_key
Guarded(fe) == fe \in {"GET", "POST", "platforms"}

IndexBody == [name |-> "Media Scraper API", version |-> "1.0.0"]
HealthBody == [status |-> "healthy", message |-> "Media Scraper API is running"]
PlatformsBody ==
    [success |-> TRUE,
     supported_platforms |-> {"youtube", "tiktok", "instagram", "twitter", "generic"}]

InfoReply(fe, key) ==
    IF Guarded(fe) /\ KeyReject(key) # None THEN KeyReject(key)
    ELSE Reply(200, CASE fe = "index" -> IndexBody
                      [] fe = "health" -> HealthBody
                      [] OTHER -> PlatformsBody)

-----------------------------------------------------------------------------
(* Inputs *)

S_mp4    == Str(<<"m","p","4">>)
S_Mp4    == Str(<<"M","p","4">>)
S_MP4    == Str(<<"M","P","4">>)
S_mp     == Str(<<"m","p">>)
S_m4a    == Str(<<"m","4","a">>)
S_720p   == Str(<<"7","2","0","p">>)
S_1080P  == Str(<<"1","0","8","0","P">>)
S_medium == Str(<<"m","e","d","i","u","m">>)
S_720    == Str(<<"7","2","0">>)
S_P      == Str(<<"P">>)

\* URLs given to identify_platform alone: prefix, host tokens, suffix
HostTokens ==
    {T_youtube, T_youtu_be, T_tiktok, T_instagram, T_twitter, T_x_com,
     T_TikTok, T_www, T_example, <<"[">>, <<"]">>}
HostTokenSeqs == UNION {[1..n -> HostTokens] : n \in 0..MaxHostTokens}
UrlPrefixes == {T_https, T_HTTPS, <<"/", "/">>, <<>>}
UrlSuffixes == {<<>>, <<"/">> \o T_tiktok, <<"?">> \o T_x_com}
IdentifyUrls ==
    {p \o Concat(h) \o x : p \in UrlPrefixes, h \in HostTokenSeqs, x \in UrlSuffixes}

\* URLs of scrape requests
U_youtube   == Str(T_https \o T_www \o T_youtube \o T_watch)
U_tiktok    == Str(T_https \o T_www \o T_tiktok \o T_watch)
U_instagram == Str(T_https \o T_instagram \o T_watch)
U_twitter   == Str(T_http \o T_x_com \o T_watch)
U_unknown   == Str(T_https \o T_example \o T_watch)
U_bracket   == Str(T_https \o <<"[">> \o T_youtube \o T_watch)
U_noscheme  == Str(T_youtube \o T_watch)
ScrapeUrls ==
    {U_youtube, U_tiktok, U_instagram, U_twitter, U_unknown, U_bracket, U_noscheme}
CliUrls == {U_youtube, U_tiktok, U_bracket, U_noscheme}
HttpUrls == ScrapeUrls \cup {None}

FrontEnds == {"GET", "POST", "CLI"}
Keys ==
    {NoKeys,
     [header |-> WrongKey, arg |-> None], [header |-> None, arg |-> WrongKey],
     [header |-> SecretKey, arg |-> None], [header |-> None, arg |-> SecretKey],
     [header |-> WrongKey, arg |-> SecretKey]}
FormatFilters == {None, S_MP4, S_mp}
QualityFilters == {None, S_720, S_P}

\* the engine's format entries: ext, format_note and url each present or not
RawFormats ==
    { [format_id |-> Str(<<"1">>), ext |-> S_mp4, format_note |-> S_720p,
       url |-> Str(<<"a">>), height |-> Num(720), vcodec |-> Str(<<"v">>)],
      [format_id |-> Str(<<"2">>), ext |-> S_m4a, format_note |-> S_medium,
       url |-> Str(<<"b">>), tbr |-> Num(128), acodec |-> Str(<<"c">>)],
      [format_id |-> Str(<<"3">>), ext |-> S_Mp4, format_note |-> S_1080P,
       url |-> Str(<<"c">>), filesize |-> Num(9)],
      [format_id |-> Str(<<"4">>), ext |-> S_mp4, url |-> Str(<<"d">>)],
      [format_id |-> Str(<<"5">>), format_note |-> S_720p, url |-> Str(<<"e">>)],
      [format_id |-> Str(<<"6">>), ext |-> S_m4a, format_note |-> None,
       url |-> Str(<<"f">>)],
      [format_id |-> Str(<<"7">>), ext |-> S_mp4, format_note |-> S_720p],
      [format_id |-> Str(<<"8">>), ext |-> S_mp4, format_note |-> S_720p,
       url |-> Str(<<>>)] }

FormatLists == UNION {[1..n -> RawFormats] : n \in 0..MaxFormats}

FullMeta ==
    [title |-> Str(<<"T">>), description |-> Str(<<"D">>), duration |-> Num(212),
     thumbnail |-> Str(<<"h">>), uploader |-> Str(<<"U">>),
     upload_date |-> Str(<<"2","0","2","4">>), view_count |-> Num(5),
     like_count |-> Num(3)]

\* info dicts: full metadata with each format list, and one with no known key
Infos == {("formats" :> l) @@ FullMeta : l \in FormatLists} \cup {[id |-> Str(<<"x">>)]}

NoOutcome == [kind |-> "none"]
EngineRaise(m) == [kind |-> "raise", msg |-> m, info |-> None]
EngineInfo(i) == [kind |-> "info", msg |-> "", info |-> i]
EngineOutcomes ==
    {EngineRaise(m) : m \in {"", "Unsupported URL"}}
    \cup {EngineInfo(i) : i \in Infos \cup {None}}

OgVideoTags ==
    {None, [property |-> "og:video", content |-> Str(<<"v">>)],
     [property |-> "og:video", content |-> Str(<<>>)], [property |-> "og:video"]}
OgImageTags ==
    {None, [property |-> "og:image", content |-> Str(<<"i">>)], [property |-> "og:image"]}
Pages ==
    [script : {"absent", "json", "json_video", "notjson", "empty"},
     title : {None, Str(<<"P">>)},
     og_video : OgVideoTags,
     og_image : OgImageTags]
FetchRaise(m) == [kind |-> "raise", msg |-> m, page |-> None]
FetchPage(pg) == [kind |-> "page", msg |-> "", page |-> pg]
FetchOutcomes ==
    {FetchRaise(m) : m \in {"", "404 Client Error"}} \cup {FetchPage(pg) : pg \in Pages}

-----------------------------------------------------------------------------
(* State machine of one request at a time *)

Unbound == "<unbound>"
NotCalled == [raised |-> FALSE, tag |-> "<not called>", error |-> ""]

\* the HTTP server's handler threads and the locals of a handler that is not running
Threads == 1..NumThreads
IdleCall ==
    [pc |-> "idle", fe |-> "none", url |-> None, ff |-> None, qf |-> None,
     platform |-> Unbound, eout |-> NoOutcome, fout |-> NoOutcome,
     result |-> None, reply |-> None]
NoCalls == [t \in Threads |-> IdleCall]

Quiet ==
    /\ frontend = "none"
    /\ api_key = NoKeys
    /\ url = None
    /\ format_filter = None
    /\ quality_filter = None
    /\ ident = NotCalled
    /\ platform = Unbound
    /\ core = None
    /\ response = None
    /\ engine_calls = 0
    /\ fetch_calls = 0
    /\ engine_out = NoOutcome
    /\ fetch_out = NoOutcome
    /\ calls = NoCalls
    /\ session = {}
    /\ output = "none"

\* The server or CLI process before its first request. Of the scrape URLs only
\* U_bracket has a bracket in its host, and urlsplit rejects it on every interpreter,
\* so the interpreter that validates bracketed hosts stands for both here;
\* SpecIdentify follows the two on hosts that tell them apart.
Init ==
    /\ pc = "idle"
    /\ strict = TRUE
    /\ Quiet

\* fault injection: identify_platform is called outside the try block, so its
\* ValueError reaches the caller of scrape_media
IdentifyEscapes(id) == [escaped |-> id.error]

\* scrape_media's own except branch: identify_platform raised, `platform` is unbound
IdentifyFailure(id) == Failure("unknown", "", id.error)

\* A request arrives: the handler runs up to its first engine call, or to its reply
\* when it is rejected or identify_platform raises.
Request(fe, key, u, ff, qf, o) ==
    /\ pc = "idle"
    /\ UNCHANGED <<calls, session>>
    /\ frontend' = fe
    /\ api_key' = key
    /\ url' = u
    /\ format_filter' = ff
    /\ quality_filter' = qf
    /\ output' = o
    /\ UNCHANGED <<strict, engine_calls, fetch_calls, engine_out, fetch_out>>
    /\ LET rej == IF fe = "CLI" THEN None ELSE HttpReject(key, u)
           id == IdentifyPlatform(u.s, strict)
       IN  IF rej # None
           THEN /\ response' = rej
                /\ pc' = "done"
                /\ UNCHANGED <<ident, platform, core>>
           ELSE IF id.raised
           THEN /\ ident' = id
                /\ core' = IdentifyFailure(id)
                /\ response' = Emit(o, Finish(fe, core', u, ff, qf))
                /\ pc' = "done"
                /\ UNCHANGED platform
           ELSE /\ ident' = id
                /\ platform' = id.tag
                /\ pc' = "engine"
                /\ UNCHANGED <<core, response>>

\* fault injection: every platform method falls back to the page fetch
HasFallbackAll(p) == TRUE

\* only scrape_tiktok's except branch calls scrape_tiktok_manual
HasFallback(p) == p = "tiktok"

\* fault injection: a faulted engine step is attempted again
RetryEngine(p, out) == IF EngineFaults(out) THEN "engine" ELSE "done"

\* where a platform method goes after its engine step: to the page fetch from
\* scrape_tiktok's except branch, to its return everywhere else
AfterEngine(p, out) ==
    IF HasFallback(p) /\ EngineFaults(out) THEN "fetch" ELSE "done"

\* A request to an endpoint that calls no scraper is answered at once.
InfoRequest(fe, key) ==
    /\ pc = "idle"
    /\ UNCHANGED <<calls, session>>
    /\ frontend' = fe
    /\ api_key' = key
    /\ response' = InfoReply(fe, key)
    /\ pc' = "done"
    /\ UNCHANGED <<url, format_filter, quality_filter, strict, output, ident, platform, core,
                   engine_calls, fetch_calls, engine_out, fetch_out>>

\* ydl.extract_info returns or raises; every path but tiktok's ends the scrape
EngineCall(out) ==
    /\ pc = "engine"
    /\ UNCHANGED <<calls, session>>
    /\ engine_calls' = engine_calls + 1
    /\ engine_out' = out
    /\ pc' = AfterEngine(platform, out)
    /\ UNCHANGED <<frontend, api_key, url, format_filter, quality_filter, strict, output,
                   ident, platform, fetch_calls, fetch_out>>
    /\ IF pc' = "done"
       THEN /\ core' = ScrapeWithEngine(platform, out)
            /\ response' = Emit(output, Finish(frontend, core', url, format_filter,
                                             quality_filter))
       ELSE UNCHANGED <<core, response>>

\* session.get of scrape_tiktok_manual returns or raises
FetchCall(out) ==
    /\ pc = "fetch"
    /\ UNCHANGED <<calls, session>>
    /\ fetch_calls' = fetch_calls + 1
    /\ fetch_out' = out
    /\ core' = ScrapeTiktokManual(out)
    /\ response' = Emit(output, Finish(frontend, core', url, format_filter,
                                     quality_filter))
    /\ pc' = "done"
    /\ UNCHANGED <<frontend, api_key, url, format_filter, quality_filter, strict, output,
                   ident, platform, engine_calls, engine_out>>

\* the reply is emitted and result and reply are discarded
Discard ==
    /\ pc = "done"
    /\ UNCHANGED <<calls, session>>
    /\ pc' = "idle"
    /\ frontend' = "none"
    /\ api_key' = NoKeys
    /\ url' = None
    /\ format_filter' = None
    /\ quality_filter' = None
    /\ ident' = NotCalled
    /\ platform' = Unbound
    /\ core' = None
    /\ response' = None
    /\ engine_calls' = 0
    /\ fetch_calls' = 0
    /\ engine_out' = NoOutcome
    /\ fetch_out' = NoOutcome
    /\ output' = "none"
    /\ UNCHANGED strict

Next ==
    \/ \E fe \in {"GET", "POST"}, key \in Keys, u \in HttpUrls,
          ff \in FormatFilters, qf \in QualityFilters :
          Request(fe, key, u, ff, qf, "none")
    \/ \E u \in CliUrls, ff \in FormatFilters, qf \in QualityFilters, o \in Outputs :
          Request("CLI", NoKeys, u, ff, qf, o)
    \/ \E fe \in {"index", "health", "platforms"}, key \in Keys : InfoRequest(fe, key)
    \/ \E out \in EngineOutcomes : EngineCall(out)
    \/ \E out \in FetchOutcomes : FetchCall(out)
    \/ Discard

Spec == Init /\ [][Next]_vars

-----------------------------------------------------------------------------
(* identify_platform called on its own (demo.py 95, run_tests.py 34) *)

InitIdentify ==
    /\ pc = "lib"
    /\ strict \in BOOLEAN
    /\ frontend = "lib"
    /\ url \in {Str(u) : u \in IdentifyUrls}
    /\ api_key = NoKeys
    /\ format_filter = None
    /\ quality_filter = None
    /\ ident = NotCalled
    /\ platform = Unbound
    /\ core = None
    /\ response = None
    /\ engine_calls = 0
    /\ fetch_calls = 0
    /\ engine_out = NoOutcome
    /\ fetch_out = NoOutcome
    /\ calls = NoCalls
    /\ session = {}
    /\ output = "none"

LibIdentify ==
    /\ pc = "lib"
    /\ UNCHANGED <<calls, session>>
    /\ ident' = IdentifyPlatform(url.s, strict)
    /\ pc' = "lib_done"
    /\ UNCHANGED <<frontend, api_key, url, format_filter, quality_filter, strict, output,
                   platform, core, response, engine_calls, fetch_calls,
                   engine_out, fetch_out>>

NextIdentify == LibIdentify

SpecIdentify == InitIdentify /\ [][NextIdentify]_vars

-----------------------------------------------------------------------------
(* Properties of identify_platform, under SpecIdentify *)

Identified == pc = "lib_done"

\* the host of the URL, lower-cased: its network location (section 4.1)
HostHas(needle) == Contains(Lower(Netloc(url.s)), needle)
InYoutubeRow == HostHas(T_youtube) \/ HostHas(T_youtu_be)
InTiktokRow == HostHas(T_tiktok)
InInstagramRow == HostHas(T_instagram)
InTwitterRow == HostHas(T_twitter) \/ HostHas(T_x_com)
HostHasBracket == HasChar(Netloc(url.s), "[") \/ HasChar(Netloc(url.s), "]")

C2_NeverFails ==
    Identified =>
        /\ ~ident.raised
        /\ ident.tag \in {"youtube", "tiktok", "instagram", "twitter", "unknown"}
        /\ (Netloc(url.s) = <<>> \/ UnbalancedBrackets(Netloc(url.s)))
              => ident.tag = "unknown"

-----------------------------------------------------------------------------
(* Properties of the scrape pipeline, under Spec *)

\* scraper.scrape_media has returned to the front end
ScraperReturned == pc = "done" /\ core # None

\* the last collaborator the scrape relied on faulted: identify_platform's parse,
\* the engine call, or, on the fallback path, the fetch or the reading of the page
LastStepFaulted ==
    \/ ident.raised
    \/ fetch_out = NoOutcome /\ engine_out # NoOutcome /\ EngineFaults(engine_out)
    \/ fetch_out # NoOutcome /\ fetch_out.kind = "raise"
    \/ /\ fetch_out # NoOutcome
       /\ fetch_out.kind = "page"
       /\ ScriptFaults(fetch_out.page) \/ ThumbnailFaults(fetch_out.page)

\* C3: scrape_media never propagates a fault: whatever the collaborators did, it
\* returns a dict with a boolean success, and every failure is reported as
\* success=false with an error text.
C3_NoFaultEscapes ==
    ScraperReturned =>
        /\ "success" \in DOMAIN core
        /\ core.success \in BOOLEAN
        /\ LastStepFaulted =>
              /\ core.success = FALSE
              /\ "error" \in DOMAIN core
        /\ ~LastStepFaulted => core.success = TRUE

\* the page was fetched and reading it raised (KeyError on og:image), reported as a failure
C3_Witness ==
    /\ ScraperReturned
    /\ fetch_out # NoOutcome
    /\ fetch_out.kind = "page"
    /\ ThumbnailFaults(fetch_out.page)
    /\ core.success = FALSE

\* C4: in every result of scrape_media, error is present and non-empty iff success is
\* false, and a failed result has no key but success, platform and error.
C4_ErrorIffFailure ==
    ScraperReturned =>
        /\ "error" \in DOMAIN core <=> core.success = FALSE
        /\ "error" \in DOMAIN core => ~IsEmptyText(core.error)
        /\ core.success = FALSE => DOMAIN core = {"success", "platform", "error"}

\* the engine raised an exception whose message is empty, and the result is a failure
C4_Witness ==
    /\ ScraperReturned
    /\ engine_out # NoOutcome
    /\ engine_out.kind = "raise"
    /\ engine_out.msg = ""
    /\ core.success = FALSE

AllHaveUrl(fs) ==
    \A i \in 1..Len(fs) :
        /\ "url" \in DOMAIN fs[i]
        /\ fs[i].url # None
        /\ Len(fs[i].url.s) > 0

\* the reply carries a JSON body with a formats list
ReplyHasFormats ==
    /\ pc = "done"
    /\ response # None
    /\ response.body # NoBody
    /\ "formats" \in DOMAIN response.body

\* C5: every record of a successful result's formats has a non-empty url, on the
\* engine paths and on the TikTok fallback, and so has every record of the formats
\* list a front end emits after filtering.
C5_FormatsHaveUrl ==
    /\ ScraperReturned /\ core.success => AllHaveUrl(core.formats)
    /\ ReplyHasFormats => AllHaveUrl(response.body.formats)

\* the engine returned an entry with an empty url next to one with a url, and the
\* reply carries a filtered, non-empty list
C5_Witness ==
    /\ ScraperReturned
    /\ engine_out # NoOutcome
    /\ engine_out.kind = "info"
    /\ engine_out.info # None
    /\ "formats" \in DOMAIN engine_out.info
    /\ \E i \in 1..Len(engine_out.info.formats) :
          /\ "url" \in DOMAIN engine_out.info.formats[i]
          /\ ~Truthy(engine_out.info.formats[i].url)
    /\ ReplyHasFormats
    /\ Truthy(format_filter)
    /\ Len(response.body.formats) = 1

-----------------------------------------------------------------------------
(* Properties of the filter step, under Spec *)

\* the scrape result is one the filter step runs on
FilterRuns == ScraperReturned /\ core.success /\ Len(core.formats) > 0

\* the record's ext equals f, case-insensitively; an absent (None) ext equals no f
ExtEquals(fmt, f) ==
    /\ "ext" \in DOMAIN fmt
    /\ fmt.ext # None
    /\ Lower(fmt.ext.s) = Lower(f.s)

\* the record's quality label contains q, case-insensitively; an absent one contains no q
QualityContains(fmt, q) ==
    /\ "quality" \in DOMAIN fmt
    /\ fmt.quality # None
    /\ Contains(Lower(fmt.quality.s), Lower(q.s))

RetainedByExt(fs, f) ==
    LET Keep(fmt) == ExtEquals(fmt, f) IN SelectSeq(fs, Keep)

RetainedByQuality(fs, q) ==
    LET Keep(fmt) == QualityContains(fmt, q) IN SelectSeq(fs, Keep)

\* C6: a format filter f applied to a successful result with a non-empty format list
\* retains exactly the records whose ext equals f case-insensitively (exact equality,
\* not substring), and the filtered list is no longer than the unfiltered one.
C6_FormatFilterExact ==
    FilterRuns /\ Truthy(format_filter) /\ ~Truthy(quality_filter) =>
        /\ ReplyHasFormats
        /\ response.body.formats = RetainedByExt(core.formats, format_filter)
        /\ \A i \in 1..Len(response.body.formats) :
              ExtEquals(response.body.formats[i], format_filter)
        /\ Len(response.body.formats) <= Len(core.formats)

\* C7: a quality filter q applied to a successful result with a non-empty format list
\* retains exactly the records whose quality label contains q as a case-insensitive
\* substring, in their original relative order.
C7_QualityFilterSubstring ==
    FilterRuns /\ Truthy(quality_filter) /\ ~Truthy(format_filter) =>
        /\ ReplyHasFormats
        /\ response.body.formats = RetainedByQuality(core.formats, quality_filter)

\* the outcome of the two list comprehensions of the filter step taken in the other
\* order, quality first
QualityThenFormat(fs, ff, qf) ==
    LET byQuality == FilterByQuality(fs, qf)
    IN  IF byQuality.raised THEN byQuality ELSE FilterByFormat(byQuality.value, ff)

\* the outcome the reply shows: the list it carries, or a fault when it carries none
RepliedFormats ==
    IF ReplyHasFormats THEN Done(response.body.formats) ELSE Fault(NoLower)

\* C8: with both filters given, the resulting list is the format filter applied and
\* then the quality filter, and equally the quality filter applied and then the
\* format filter: the records passing both predicates, whatever the order.
C8_FiltersCommute ==
    FilterRuns /\ Truthy(format_filter) /\ Truthy(quality_filter) =>
        /\ RepliedFormats =
              Done(RetainedByQuality(RetainedByExt(core.formats, format_filter),
                                     quality_filter))
        /\ RepliedFormats = QualityThenFormat(core.formats, format_filter, quality_filter)

\* C9: in every reply of the GET and POST scrape endpoints and of the CLI, total_formats,
\* when present, equals the length of the formats list of the same reply.
C9_TotalIsLength ==
    (pc = "done" /\ response.body # NoBody /\ "total_formats" \in DOMAIN response.body) =>
        /\ "formats" \in DOMAIN response.body
        /\ response.body.total_formats = Len(response.body.formats)

\* a reply whose filtered list is shorter than the list the scraper returned
C9_Witness ==
    /\ FilterRuns
    /\ ReplyHasFormats
    /\ "total_formats" \in DOMAIN response.body
    /\ response.body.total_formats = 1
    /\ Len(core.formats) = 2

\* the keys an HTTP handler adds after the filter step
AddedByHttp == {"scraped_url", "filters_applied"}

\* C10: the filter step runs only on a successful result with a non-empty formats
\* list; on a failed result or an empty list it leaves every field as the scraper
\* returned it, replaces no formats and adds no total_formats, whatever the filters
\* (seen in the reply, which the CLI emits unless its output file cannot be written).
C10_FilterOnlyOnFormats ==
    ScraperReturned =>
        /\ (response.body # NoBody /\ "total_formats" \in DOMAIN response.body)
              => FilterRuns
        /\ (~FilterRuns /\ output # "unwritable") =>
              /\ response.body # NoBody
              /\ DOMAIN response.body \ AddedByHttp = DOMAIN core
              /\ \A k \in DOMAIN core : response.body[k] = core[k]

\* a successful result with an empty formats list, both filters given, answered
C10_Witness ==
    /\ ScraperReturned
    /\ core.success
    /\ core.formats = <<>>
    /\ Truthy(format_filter)
    /\ Truthy(quality_filter)
    /\ response.body # NoBody
    /\ "formats" \in DOMAIN response.body

-----------------------------------------------------------------------------
(* Dispatch, fallback and retries (scrapers.py 44-67, 163-166) *)

\* scrape_media returned for a URL on which identify_platform returned a tag
Dispatched == ScraperReturned /\ ~ident.raised

\* the platform name an error text begins with, by the tag the results carry
NamedBy(tag) ==
    CASE tag = "youtube"   -> "YouTube scraping failed: "
      [] tag = "tiktok"    -> "TikTok scraping failed: "
      [] tag = "instagram" -> "Instagram scraping failed: "
      [] tag = "twitter"   -> "Twitter scraping failed: "
      [] tag = "generic"   -> "Generic scraping failed: "
      [] OTHER             -> "Unknown scraping failed: "

\* the tag a result carries for an identified tag: the generic path stands for unknown
CarriedTag(tag) == IF tag = "unknown" THEN "generic" ELSE tag

\* C11 as stated: a failure result for a URL whose platform was identified has
\* platform equal to the tag identify_platform returned, and an error text that
\* begins with a prefix naming that platform.
C11_FailureCarriesIdentifiedTag ==
    (Dispatched /\ core.success = FALSE) =>
        /\ core.platform = ident.tag
        /\ core.error[1] = NamedBy(core.platform)

\* C11: a failure result for a URL on which identify_platform returned youtube,
\* tiktok, instagram or twitter has that tag as platform; for a URL identified as
\* unknown it has platform "generic"; in both cases the error text begins with the
\* prefix naming the platform the result carries.
C11_FailureCarriesPathTag ==
    (Dispatched /\ core.success = FALSE) =>
        /\ core.platform = CarriedTag(ident.tag)
        /\ core.error[1] = NamedBy(core.platform)

\* the engine raised for a URL identified as unknown
C11_Witness ==
    /\ Dispatched
    /\ core.success = FALSE
    /\ ident.tag = "unknown"
    /\ core.platform = "generic"
    /\ engine_out.kind = "raise"

\* C12: scrape_media routes by the identified tag to one strategy: the engine is
\* called once, and a successful result carries the identified tag as platform for
\* youtube, tiktok, instagram and twitter, and "generic" for unknown.
C12_RoutesByTag ==
    Dispatched =>
        /\ engine_calls = 1
        /\ platform = ident.tag
        /\ ident.tag \in {"youtube", "tiktok", "instagram", "twitter", "unknown"}
        /\ core.success =>
              core.platform = IF ident.tag = "unknown" THEN "generic" ELSE ident.tag

\* a successful result of the generic path for a URL identified as unknown
C12_Witness ==
    /\ Dispatched
    /\ core.success
    /\ ident.tag = "unknown"
    /\ core.platform = "generic"
    /\ fetch_calls = 0

\* the engine step of the dispatched platform method has failed: extract_info
\* raised, or returned nothing and the reading of its return value raised inside
\* the same try block
EngineFailed ==
    engine_out.kind = "raise" \/ (engine_out.kind = "info" /\ engine_out.info = None)

EngineSucceeded == engine_out.kind = "info" /\ engine_out.info # None

FetchFailed == fetch_out.kind = "raise"

\* a page fetch is about to be made or has been made
FetchReached == pc = "fetch" \/ fetch_calls > 0 \/ fetch_out # NoOutcome

C14_FailureSurfacedAtOnce ==
    /\ engine_calls <= 1
    /\ fetch_calls <= 1
    /\ EngineFailed => (pc = "done" /\ core.success = FALSE /\ fetch_calls = 0)
    /\ FetchFailed => (pc = "done" /\ core.success = FALSE)

\* C14: the engine is invoked at most once and the page is fetched at most once per
\* call; a failure of the engine on the youtube, instagram, twitter and generic
\* paths, and a failure of the page fetch, is at once the failure result of the
\* call; a failure of the engine on the tiktok path is followed by the one page
\* fetch of the fallback and by nothing else.
C14_NoRetries ==
    /\ engine_calls <= 1
    /\ fetch_calls <= 1
    /\ (EngineFailed /\ ident.tag # "tiktok") =>
          (pc = "done" /\ core.success = FALSE /\ engine_calls = 1 /\ fetch_calls = 0)
    /\ (EngineFailed /\ ident.tag = "tiktok") =>
          \/ pc = "fetch" /\ engine_calls = 1 /\ fetch_calls = 0
          \/ pc = "done" /\ engine_calls = 1 /\ fetch_calls = 1
    /\ FetchFailed =>
          (pc = "done" /\ core.success = FALSE /\ engine_calls = 1 /\ fetch_calls = 1)

\* engine and page fetch both failed for a tiktok URL: one call of each
C14_Witness ==
    /\ Dispatched
    /\ ident.tag = "tiktok"
    /\ EngineFailed
    /\ FetchFailed
    /\ core.success = FALSE
    /\ engine_calls = 1
    /\ fetch_calls = 1

-----------------------------------------------------------------------------
(* The manual TikTok fallback (scrapers.py 168-222) *)

\* scrape_tiktok_manual fetched a page / returned a successful result from it
PageFetched == ScraperReturned /\ fetch_out.kind = "page"
FallbackSucceeded == PageFetched /\ core.success

\* C15: the fallback reports success=true for every fetched page, whatever its
\* script element and its og:image and og:video tags hold, and success=false only
\* when the fetch itself fails.
C15_SucceedsOnEveryPage ==
    (ScraperReturned /\ fetch_out # NoOutcome) =>
        (core.success <=> fetch_out.kind = "page")

S_default == Str(<<"d","e","f","a","u","l","t">>)
S_TikTokVideo == Str(<<"T","i","k","T","o","k"," ","V","i","d","e","o">>)

\* the content attribute of a meta tag, None for no tag or no attribute
ContentOf(tag) == IF tag = None THEN None ELSE Get(tag, "content")

IsFallbackRecord(rec, video) ==
    /\ rec.ext = S_mp4
    /\ rec.quality = S_default
    /\ rec.url = video

\* C16 as stated: a successful fallback result has exactly one record (ext "mp4",
\* quality "default", url the og:video content) when the page has an og:video meta
\* tag and an empty formats list otherwise; its title is the page title, its
\* thumbnail the og:image content.
C16_OneRecordPerVideoTag ==
    FallbackSucceeded =>
        /\ IF fetch_out.page.og_video # None
           THEN /\ Len(core.formats) = 1
                /\ IsFallbackRecord(core.formats[1], ContentOf(fetch_out.page.og_video))
           ELSE core.formats = <<>>
        /\ fetch_out.page.title # None => core.title = fetch_out.page.title
        /\ core.thumbnail = ContentOf(fetch_out.page.og_image)

\* C16: a successful fallback result has exactly one record (ext "mp4", quality
\* "default", url the og:video content) when the page has an og:video meta tag with
\* a non-empty content attribute, and an empty formats list otherwise; its title is
\* the page title, or "TikTok Video" for a page without title element; its
\* thumbnail is the og:image content, or null for a page without og:image tag.
C16_OneRecordPerVideoContent ==
    FallbackSucceeded =>
        /\ IF Truthy(ContentOf(fetch_out.page.og_video))
           THEN /\ Len(core.formats) = 1
                /\ IsFallbackRecord(core.formats[1], fetch_out.page.og_video.content)
           ELSE core.formats = <<>>
        /\ core.title = IF fetch_out.page.title # None THEN fetch_out.page.title
                        ELSE S_TikTokVideo
        /\ core.thumbnail = ContentOf(fetch_out.page.og_image)

\* a page with an og:video tag that has no content attribute, and no title element
C16_Witness ==
    /\ FallbackSucceeded
    /\ fetch_out.page.og_video # None
    /\ "content" \notin DOMAIN fetch_out.page.og_video
    /\ fetch_out.page.title = None
    /\ core.formats = <<>>
    /\ core.title = S_TikTokVideo

-----------------------------------------------------------------------------
(* The normalizer (scrapers.py 69-119, 121-161, 233-363) *)

\* scrape_media returned the success dict a platform method built from the engine's info
EngineResult == Dispatched /\ core.success /\ fetch_out = NoOutcome

\* the engine's format entries, as info.get('formats', []) reads them
EngineFormats ==
    IF "formats" \in DOMAIN engine_out.info THEN engine_out.info.formats ELSE <<>>

\* the entry has a direct URL: a url attribute that is a non-empty string
DirectUrl(fmt) ==
    /\ "url" \in DOMAIN fmt
    /\ fmt.url # None
    /\ fmt.url.s # <<>>

EntriesWithUrl == SelectSeq(EngineFormats, DirectUrl)

\* a is b with zero or more elements left out, order kept
IsSubsequence(a, b) ==
    \E f \in [1..Len(a) -> 1..Len(b)] :
        /\ \A i \in 1..Len(a) : a[i] = b[f[i]]
        /\ \A i, j \in 1..Len(a) : i < j => f[i] < f[j]

\* C17: on every engine path the formats list of the result has one record per
\* engine entry with a direct URL, in the engine's order, each carrying its entry's
\* format_id and url; entries without URL are dropped, nothing is reordered or
\* duplicated; the formats list a reply carries after the filter step is a
\* subsequence of it.
C17_FormatsInEngineOrder ==
    EngineResult =>
        /\ Len(core.formats) = Len(EntriesWithUrl)
        /\ \A i \in 1..Len(core.formats) :
              /\ core.formats[i].url = EntriesWithUrl[i].url
              /\ core.formats[i].format_id = EntriesWithUrl[i].format_id
        /\ ReplyHasFormats => IsSubsequence(response.body.formats, core.formats)

\* two different entries with URL, in the engine's order, one of them filtered out
C17_Witness ==
    /\ EngineResult
    /\ Len(EngineFormats) = 2
    /\ Len(core.formats) = 2
    /\ core.formats[1].url # core.formats[2].url
    /\ ReplyHasFormats
    /\ response.body.formats = <<core.formats[2]>>

\* the engine attribute a field of a format record is read from
AttributeOf(k) == IF k = "quality" THEN "format_note" ELSE k

S_Unknown == Str(<<"U","n","k","n","o","w","n">>)

\* field k of result dict r is absent when source dict d lacks attribute a, and
\* when not empty it is the value d holds under a
NotFabricated(r, k, d, a) ==
    /\ a \notin DOMAIN d => r[k] = None
    /\ r[k] # None => (a \in DOMAIN d /\ r[k] = d[a])

MetadataNotFabricated ==
    EngineResult =>
        \A k \in DOMAIN core \ {"success", "platform", "formats"} :
            NotFabricated(core, k, engine_out.info, k)

\* C18 as stated: no field of a format record and no metadata field is fabricated:
\* it is empty when the engine's output lacks the attribute, and when not empty it
\* is the value the engine supplied under that attribute.
C18_NeverFabricates ==
    /\ MetadataNotFabricated
    /\ EngineResult =>
          \A i \in 1..Len(core.formats) : \A k \in DOMAIN core.formats[i] :
              NotFabricated(core.formats[i], k, EntriesWithUrl[i], AttributeOf(k))

\* C18: every metadata field and every field of a format record other than quality
\* is empty when the engine's output lacks the attribute and is otherwise the value
\* the engine supplied under it; quality is the entry's format_note, and the text
\* "Unknown" when the entry has no format_note. On the fallback path the thumbnail
\* and the record's url are the page's og:image and og:video contents, the title is
\* the page's title or the text "TikTok Video", and the record's other fields are
\* fixed texts.
C18_FabricatesOnlyDefaults ==
    /\ MetadataNotFabricated
    /\ EngineResult =>
          \A i \in 1..Len(core.formats) : \A k \in DOMAIN core.formats[i] :
              IF k = "quality" /\ "format_note" \notin DOMAIN EntriesWithUrl[i]
              THEN core.formats[i].quality = S_Unknown
              ELSE NotFabricated(core.formats[i], k, EntriesWithUrl[i], AttributeOf(k))
    /\ FallbackSucceeded =>
          /\ core.thumbnail # None => core.thumbnail = ContentOf(fetch_out.page.og_image)
          /\ core.title \in {fetch_out.page.title, S_TikTokVideo}
          /\ fetch_out.page.title # None => core.title = fetch_out.page.title
          /\ \A i \in 1..Len(core.formats) :
                /\ core.formats[i].url = ContentOf(fetch_out.page.og_video)
                /\ core.formats[i].format_id = S_mp4
                /\ core.formats[i].ext = S_mp4
                /\ core.formats[i].quality = S_default

\* an entry without format_note was normalized: its quality is a text of the code
C18_Witness ==
    /\ EngineResult
    /\ Len(core.formats) > 0
    /\ "format_note" \notin DOMAIN EntriesWithUrl[1]
    /\ core.formats[1].quality = S_Unknown

\* the metadata fields of the youtube and tiktok methods only
Counters == {"duration", "view_count", "like_count"}

\* C19: a successful youtube or tiktok engine result carries duration, view_count
\* and like_count with the values of the engine output; a successful instagram,
\* twitter or generic result, and the reply made from it, carries none of the
\* three, also when the engine output supplies them.
C19_CountersByPlatform ==
    EngineResult =>
        IF core.platform \in {"youtube", "tiktok"}
        THEN \A k \in Counters :
                /\ k \in DOMAIN core
                /\ core[k] = Get(engine_out.info, k)
        ELSE /\ core.platform \in {"instagram", "twitter", "generic"}
             /\ Counters \cap DOMAIN core = {}
             /\ response.body # NoBody => Counters \cap DOMAIN response.body = {}

\* an instagram result made from an engine output that supplies the three fields
C19_Witness ==
    /\ EngineResult
    /\ core.platform = "instagram"
    /\ Counters \subseteq DOMAIN engine_out.info
    /\ engine_out.info.duration = Num(212)
    /\ "duration" \notin DOMAIN core
    /\ "title" \in DOMAIN core

-----------------------------------------------------------------------------
(* The API key guard (app.py 32-51) *)

\* the endpoints of the claim: the guarded ones and the open ones
KeyEndpoints == {"GET", "POST", "platforms"}
OpenEndpoints == {"index", "health"}

\* the request has no key, in the header or in the parameter
NoKeyGiven == ~Truthy(api_key.header) /\ ~Truthy(api_key.arg)

\* the key the request presents (the header's before the parameter's) is not the
\* configured one
WrongKeyGiven ==
    /\ ~NoKeyGiven
    /\ (IF Truthy(api_key.header) THEN api_key.header ELSE api_key.arg) # SecretKey

\* no part of the scraper has run for the request
ScraperNotInvoked ==
    /\ pc \notin {"engine", "fetch"}
    /\ ident = NotCalled
    /\ core = None
    /\ engine_calls = 0
    /\ fetch_calls = 0

RejectedWith(status) ==
    /\ pc = "done"
    /\ response.status = status
    /\ response.body.success = FALSE

\* C20: on the GET and POST scrape endpoints and on the platforms endpoint a request
\* without key is answered 401 and a request with another key than the configured
\* one 403, both with success=false and with no part of the scraper run; the
\* health and index endpoints answer 200 whatever key the request has.
C20_KeyGuard ==
    /\ (frontend \in KeyEndpoints /\ NoKeyGiven) =>
          (RejectedWith(401) /\ ScraperNotInvoked)
    /\ (frontend \in KeyEndpoints /\ WrongKeyGiven) =>
          (RejectedWith(403) /\ ScraperNotInvoked)
    /\ frontend \in OpenEndpoints =>
          (pc = "done" /\ response.status = 200 /\ ScraperNotInvoked)

\* a scrape request with a well-formed URL and a wrong key in the header
C20_Witness ==
    /\ frontend = "GET"
    /\ url = U_youtube
    /\ api_key.header = WrongKey
    /\ RejectedWith(403)
    /\ ScraperNotInvoked

-----------------------------------------------------------------------------
(* The callers of the core (app.py 95-243, cli.py 12-115) *)

\* the request's URL is there and starts with "http://" or "https://"
HasWebPrefix ==
    /\ url # None
    /\ \/ StartsWith(url.s, <<"h","t","t","p",":","/","/">>)
       \/ StartsWith(url.s, <<"h","t","t","p","s",":","/","/">>)

\* some part of scrape_media has run for the request
ScraperInvoked == ~ScraperNotInvoked

\* C21: in the GET endpoint, the POST endpoint and the CLI scrape_media is invoked
\* only with a URL that starts with "http://" or "https://"; an HTTP request that
\* passed the key guard with a missing URL or a URL with another prefix is answered
\* 400 with no part of the scraper run.
C21_CallersValidate ==
    /\ ScraperInvoked => HasWebPrefix
    /\ (pc = "done" /\ frontend \in {"GET", "POST"}
          /\ ~NoKeyGiven /\ ~WrongKeyGiven /\ ~HasWebPrefix) =>
          (response.status = 400 /\ ScraperNotInvoked)

\* the HTTP reply is the jsonify of the core's result dict (status 200)
BuiltFromCore ==
    /\ ScraperReturned
    /\ frontend \in {"GET", "POST"}
    /\ response.status = 200

\* C22: every HTTP scrape reply built from a core result, successful or failed, has
\* scraped_url equal to the requested URL and filters_applied equal to the format
\* and quality filters given (null for one not given); the result as the core
\* returned it has neither field.
C22_MetadataAdded ==
    /\ ScraperReturned =>
          /\ "scraped_url" \notin DOMAIN core
          /\ "filters_applied" \notin DOMAIN core
    /\ BuiltFromCore =>
          /\ "scraped_url" \in DOMAIN response.body
          /\ response.body.scraped_url = url
          /\ "filters_applied" \in DOMAIN response.body
          /\ DOMAIN response.body.filters_applied = {"format", "quality"}
          /\ response.body.filters_applied.format = format_filter
          /\ response.body.filters_applied.quality = quality_filter

\* a failed core result answered by the POST endpoint, one filter given
C22_Witness ==
    /\ BuiltFromCore
    /\ frontend = "POST"
    /\ core.success = FALSE
    /\ format_filter = None
    /\ quality_filter = S_720
    /\ response.body.success = FALSE
    /\ response.body.scraped_url = url

-----------------------------------------------------------------------------
(* Concurrent requests on the process-wide scraper (app.py 25-26)           *)
(*                                                                         *)
(* The HTTP server runs each request in a handler thread. The handlers      *)
(* share one MediaScraper, whose only attribute is the requests.Session     *)
(* (scrapers.py 23-27); url, platform, ydl_opts, info, formats and result   *)
(* are locals of the call. calls[t] holds the locals of thread t's call,    *)
(* session the hosts whose cookies the shared session has stored.           *)

\* what the collaborators can answer to a call
TwoFormats ==
    << [format_id |-> Str(<<"1">>), ext |-> S_mp4, format_note |-> S_720p,
        url |-> Str(<<"a">>)],
       [format_id |-> Str(<<"2">>), ext |-> S_m4a, format_note |-> S_medium,
        url |-> Str(<<"b">>)] >>
ThreadEngineOutcomes ==
    {EngineRaise("Unsupported URL"), EngineInfo(("formats" :> TwoFormats) @@ FullMeta)}
ThreadFetchOutcomes ==
    {FetchRaise("404 Client Error"),
     FetchPage([script |-> "absent", title |-> Str(<<"P">>),
                og_video |-> [property |-> "og:video", content |-> Str(<<"v">>)],
                og_image |-> None])}
ThreadUrls == {U_youtube, U_tiktok}
ThreadFilters == {None, S_MP4}

\* fault injection: a session that holds cookies already is not used again
FallbackResultBySession(sess, out) ==
    IF sess # {} THEN ScrapeTiktokManual(FetchRaise("session in use"))
    ELSE ScrapeTiktokManual(out)

\* scrape_tiktok_manual on the shared scraper: self.session makes the fetch, and
\* nothing else of the scraper object is read
FallbackResult(sess, out) == ScrapeTiktokManual(out)

\* the session's cookie jar after a fetch
SessionAfter(sess, out) == IF out.kind = "page" THEN sess \cup {"tiktok.com"} ELSE sess

\* thread t's handler starts on a request that passed the key guard and the URL
\* validation, and runs up to its engine call
Arrive(t, fe, u, ff, qf) ==
    /\ pc = "threads"
    /\ calls[t].pc = "idle"
    /\ LET id == IdentifyPlatform(u.s, strict)
           c0 == [IdleCall EXCEPT !.fe = fe, !.url = u, !.ff = ff, !.qf = qf]
       IN  calls' = [calls EXCEPT ![t] =
                IF id.raised
                THEN [c0 EXCEPT !.pc = "done",
                                !.result = IdentifyFailure(id),
                                !.reply = Finish(fe, IdentifyFailure(id), u, ff, qf)]
                ELSE [c0 EXCEPT !.pc = "engine", !.platform = id.tag]]
    /\ UNCHANGED <<pc, frontend, api_key, url, format_filter, quality_filter, strict, output,
                   ident, platform, core, response, engine_calls, fetch_calls,
                   engine_out, fetch_out, session>>

\* thread t's engine call returns or raises
Extract(t, out) ==
    /\ pc = "threads"
    /\ calls[t].pc = "engine"
    /\ LET c == calls[t]
           to == AfterEngine(c.platform, out)
           r == ScrapeWithEngine(c.platform, out)
       IN  calls' = [calls EXCEPT ![t] =
                IF to = "done"
                THEN [c EXCEPT !.pc = "done", !.eout = out, !.result = r,
                               !.reply = Finish(c.fe, r, c.url, c.ff, c.qf)]
                ELSE [c EXCEPT !.pc = to, !.eout = out]]
    /\ UNCHANGED <<pc, frontend, api_key, url, format_filter, quality_filter, strict, output,
                   ident, platform, core, response, engine_calls, fetch_calls,
                   engine_out, fetch_out, session>>

\* thread t's page fetch through the shared session returns or raises
Fetch(t, out) ==
    /\ pc = "threads"
    /\ calls[t].pc = "fetch"
    /\ session' = SessionAfter(session, out)
    /\ LET c == calls[t]
           r == FallbackResult(session, out)
       IN  calls' = [calls EXCEPT ![t] =
                [c EXCEPT !.pc = "done", !.fout = out, !.result = r,
                          !.reply = Finish(c.fe, r, c.url, c.ff, c.qf)]]
    /\ UNCHANGED <<pc, frontend, api_key, url, format_filter, quality_filter, strict, output,
                   ident, platform, core, response, engine_calls, fetch_calls,
                   engine_out, fetch_out>>

\* thread t's reply is sent and its locals are gone; the session stays
Respond(t) ==
    /\ pc = "threads"
    /\ calls[t].pc = "done"
    /\ calls' = [calls EXCEPT ![t] = IdleCall]
    /\ UNCHANGED <<pc, frontend, api_key, url, format_filter, quality_filter, strict, output,
                   ident, platform, core, response, engine_calls, fetch_calls,
                   engine_out, fetch_out, session>>

InitConcurrent ==
    /\ pc = "threads"
    /\ strict \in BOOLEAN
    /\ Quiet

NextConcurrent ==
    \/ \E t \in Threads, fe \in {"GET", "POST"}, u \in ThreadUrls,
          ff \in ThreadFilters, qf \in {None} : Arrive(t, fe, u, ff, qf)
    \/ \E t \in Threads, out \in ThreadEngineOutcomes : Extract(t, out)
    \/ \E t \in Threads, out \in ThreadFetchOutcomes : Fetch(t, out)
    \/ \E t \in Threads : Respond(t)

SpecConcurrent == InitConcurrent /\ [][NextConcurrent]_vars

\* the reply a request gets when it is the only one the process ever serves: the
\* handler run from start to end on the request and on the collaborators' answers
\* to it
ReplyAlone(c) ==
    LET id == IdentifyPlatform(c.url.s, strict)
        result ==
            IF id.raised THEN IdentifyFailure(id)
            ELSE IF id.tag = "tiktok" /\ EngineFaults(c.eout)
            THEN ScrapeTiktokManual(c.fout)
            ELSE ScrapeWithEngine(id.tag, c.eout)
    IN  Finish(c.fe, result, c.url, c.ff, c.qf)

-----------------------------------------------------------------------------
(* The ordered table of identify_platform, under SpecIdentify *)

\* the tag of the earliest row, in the order youtube, tiktok, instagram, twitter,
\* that the host matches
EarliestRow ==
    CASE InYoutubeRow   -> "youtube"
      [] InTiktokRow    -> "tiktok"
      [] InInstagramRow -> "instagram"
      [] InTwitterRow   -> "twitter"
      [] OTHER          -> "unknown"

\* a listed domain stands somewhere in the URL, in whatever case
UrlHas(needle) == Contains(Lower(url.s), needle)

\* C24: identify_platform classifies a URL whose host matches a row of the table by
\* the earliest such row, in the order youtube, tiktok, instagram, twitter: a host
\* matching several rows gets the earliest one (youtube.com with tiktok.com is
\* youtube); a listed domain that stands only in the path or query matches nothing.
C24_EarliestRowOfHost ==
    Identified =>
        /\ EarliestRow # "unknown" => ident.tag = EarliestRow
        /\ (HostHas(T_youtube) /\ HostHas(T_tiktok)) => ident.tag = "youtube"
        /\ (~InTiktokRow /\ UrlHas(T_tiktok)) => ident.tag # "tiktok"
        /\ (~InTwitterRow /\ UrlHas(T_x_com)) => ident.tag # "twitter"

-----------------------------------------------------------------------------
(* The format record across the platform paths (scrapers.py 84-96, 137-146, *)
(* 248-256, 292-300, 336-344)                                              *)

\* the tags scrape_media dispatches on, one per platform path
Paths == {"youtube", "tiktok", "instagram", "twitter", "unknown"}

AllFormatFields ==
    {"format_id", "ext", "quality", "filesize", "url", "vcodec", "acodec",
     "width", "height", "fps", "tbr"}

\* the fields of a format record by the platform tag of the result
FieldsOn(tag) ==
    CASE tag = "youtube" -> AllFormatFields
      [] tag = "tiktok"  -> AllFormatFields \ {"vcodec", "acodec", "fps"}
      [] OTHER           -> AllFormatFields \ {"vcodec", "acodec", "fps", "tbr"}

\* the record every path makes of the entry agrees with rec on the fields both have
SameValuesOnEveryPath(rec, entry) ==
    \A p \in Paths :
        \A k \in DOMAIN rec \cap DOMAIN FormatInfo(p, entry) :
            FormatInfo(p, entry)[k] = rec[k]

\* C25 as stated: the record made of an engine format entry has the eleven fields
\* format_id, ext, quality, filesize, url, vcodec, acodec, width, height, fps, tbr
\* and the same values whichever platform path normalizes the entry.
C25_SameRecordOnEveryPath ==
    EngineResult =>
        \A i \in 1..Len(core.formats) :
            /\ DOMAIN core.formats[i] = AllFormatFields
            /\ \A p \in Paths : FormatInfo(p, EntriesWithUrl[i]) = core.formats[i]

\* C25: the record made of an engine format entry has the eleven fields on the
\* youtube path, the eight fields without vcodec, acodec and fps on the tiktok
\* path, and the seven fields without vcodec, acodec, fps and tbr on the instagram,
\* twitter and generic paths; a field two paths both have has the same value on
\* both.
C25_FieldsByPath ==
    EngineResult =>
        \A i \in 1..Len(core.formats) :
            /\ DOMAIN core.formats[i] = FieldsOn(core.platform)
            /\ SameValuesOnEveryPath(core.formats[i], EntriesWithUrl[i])

\* an entry with a tbr normalized on the twitter path: the record has no tbr
C25_Witness ==
    /\ EngineResult
    /\ core.platform = "twitter"
    /\ Len(core.formats) > 0
    /\ "tbr" \in DOMAIN EntriesWithUrl[1]
    /\ "tbr" \notin DOMAIN core.formats[1]
    /\ core.formats[1].ext = EntriesWithUrl[1].ext

-----------------------------------------------------------------------------
(* The rehydration step of the fallback (scrapers.py 176-189, 224-231) *)

\* the fetched page with its rehydration script element taken out
PageWithoutScript == [fetch_out.page EXCEPT !.script = "absent"]

\* C26: a successful fallback result never comes from the rehydration JSON: for
\* every page, with or without the script element and whatever the element holds,
\* it is the result built from the title and the og:video and og:image tags, the
\* one the same page gives without the script element.
C26_RehydrationNeverTheResult ==
    FallbackSucceeded =>
        /\ DOMAIN core = {"success", "platform", "title", "thumbnail", "formats"}
        /\ core = ScrapeTiktokManual(FetchPage(PageWithoutScript))
        /\ core.title \in {fetch_out.page.title, S_TikTokVideo}

\* a page whose rehydration script holds the JSON of a video
C26_Witness ==
    /\ FallbackSucceeded
    /\ fetch_out.page.script = "json_video"
    /\ fetch_out.page.title # None
    /\ core.title = fetch_out.page.title
    /\ Len(core.formats) = 1

-----------------------------------------------------------------------------
(* Completion of the filter step (app.py 131-148, 159-164; cli.py 72-89, 113-115) *)

\* a filter is given and the front end can emit its reply
FilterGiven == Truthy(format_filter) \/ Truthy(quality_filter)
CanEmit == output # "unwritable"

\* the request ended in the handler's except branch: HTTP 500, or CLI exit 1 with
\* no JSON written
EndedInExcept ==
    \/ frontend \in {"GET", "POST"} /\ response.status = 500
    \/ frontend = "CLI" /\ response.status = 1 /\ response.body = NoBody

\* C27: the filter step completes for every successful result of the normalizer:
\* with a filter given, also over a record whose ext or quality is null, the reply
\* carries the filtered list, in which no record with a null value under a filtered
\* field is retained, and the request does not end as HTTP 500 or CLI error exit.
C27_FilterCompletes ==
    (FilterRuns /\ FilterGiven /\ CanEmit) =>
        /\ ~EndedInExcept
        /\ ReplyHasFormats
        /\ \A i \in 1..Len(response.body.formats) :
              /\ Truthy(format_filter) => response.body.formats[i].ext # None
              /\ Truthy(quality_filter) => response.body.formats[i].quality # None

-----------------------------------------------------------------------------
(* The filter step across the three front ends *)

NoList == <<"no list">>

\* the formats list and the total_formats a reply carries, NoList for a reply that
\* carries no list
ListAndTotal(reply) ==
    IF reply.body # NoBody /\ "formats" \in DOMAIN reply.body
    THEN <<reply.body.formats,
           IF "total_formats" \in DOMAIN reply.body
           THEN <<reply.body.total_formats>> ELSE <<>> >>
    ELSE NoList

\* what front end fe makes of the result, the URL and the filters of the request
ReplyOf(fe) == Finish(fe, core, url, format_filter, quality_filter)

-----------------------------------------------------------------------------
(* The exit status of the CLI *)

\* a run of cli.py reached sys.exit
CliEnded == pc = "done" /\ frontend = "CLI"

\* the filter step of the run raised
FilterRaised == ApplyFilters(core, format_filter, quality_filter).raised

\* an exception reached the except branch of main: scrape_media returns a failed
\* result for every exception of its own, so the exceptions left are those of the
\* filter step and of writing the output
ExceptionInMain == FilterRaised \/ output = "unwritable"

\* the JSON the run printed or wrote is the result as the filter step left it
ResultEmitted ==
    /\ response.body # NoBody
    /\ response.body = ApplyFilters(core, format_filter, quality_filter).value

====
